---- MODULE Spec2Model ----
(***************************************************************************)
(* Model of the HistorySidepanel browser extension: the URL normalizer,    *)
(* the navigation tracker of the content script (debounce timer, last      *)
(* accepted URL, PAGE_VISIT emission), the background worker's POST of a   *)
(* visit, and the three content analyzers.                                 *)
(*                                                                         *)
(* A string is a sequence of tokens (scheme, "//", host labels, path,      *)
(* query, fragment); parsing, serialising and lower-casing are operators   *)
(* on such sequences.                                                      *)
(***************************************************************************)
EXTENDS Integers, Sequences, FiniteSets, TLC

(***************************************************************************)
(* Bounds                                                                  *)
(***************************************************************************)
\* longest run of leading "www." labels in a generated hostname
MaxWww == 2
\* number of events of the page and its tab in one run: URL changes, DOM
\* rewrites and tab "complete" events
MaxEvents == 2
\* number of elements (besides the body) of an analyzed document
MaxNodes == 2

(***************************************************************************)
(* Strings as token sequences                                              *)
(***************************************************************************)
SchemeTok == {"https:", "HTTPS:", "http:"}
WwwTok == {"www.", "WWW."}
HostTok == {"a.com", "A.COM", "b.org"}
PathTok == {"/", "/x", "/X", "/y"}
QueryTok == {"?q=1", "?q=2"}
FragTok == {"#frag"}

\* String.prototype.toLowerCase, one token at a time
ToLowerTok(t) ==
  CASE t = "HTTPS:" -> "https:"
    [] t = "WWW." -> "www."
    [] t = "A.COM" -> "a.com"
    [] t = "/X" -> "/x"
    [] t = "JavaScript:" -> "javascript:"
    [] t = "/IMAGES/" -> "/images/"
    [] OTHER -> t

toLowerCase(s) == [i \in 1..Len(s) |-> ToLowerTok(s[i])]

\* number of leading "www." labels of s, ignoring case
RECURSIVE WwwRun(_)
WwwRun(s) ==
  IF s # <<>> /\ Head(s) \in WwwTok THEN 1 + WwwRun(Tail(s)) ELSE 0

\* the part of a URL after the host, path? query? fragment?, where p, q and
\* f are the numbers (0 or 1) of path, query and fragment tokens found
TailRecord(t, p, q, f) ==
  [ok |-> p + q + f = Len(t),
   pathname |-> IF p = 1 THEN t[1] ELSE "/",
   search |-> IF q = 1 THEN <<t[p + 1]>> ELSE <<>>,
   hash |-> IF f = 1 THEN <<t[p + q + 1]>> ELSE <<>>]

TailFrom(t, p, q) ==
  TailRecord(t, p, q, IF Len(t) > p + q /\ t[p + q + 1] \in FragTok
                      THEN 1 ELSE 0)

TailParts(t) ==
  TailFrom(t, IF t # <<>> /\ t[1] \in PathTok THEN 1 ELSE 0,
           IF t # <<>> /\ t[1] \in PathTok
           THEN (IF Len(t) > 1 /\ t[2] \in QueryTok THEN 1 ELSE 0)
           ELSE (IF t # <<>> /\ t[1] \in QueryTok THEN 1 ELSE 0))

\* new URL(url): ok = FALSE stands for the TypeError thrown on a string
\* that is not an absolute URL.  The scheme and the host are lower-cased by
\* the parser, an empty path becomes "/".
URLRecord(url, hostPos, tl) ==
  IF /\ Len(url) >= hostPos
     /\ url[1] \in SchemeTok
     /\ url[2] = "//"
     /\ url[hostPos] \in HostTok
     /\ tl.ok
  THEN [ok |-> TRUE,
        protocol |-> ToLowerTok(url[1]),
        hostname |-> toLowerCase(SubSeq(url, 3, hostPos)),
        pathname |-> tl.pathname,
        search |-> tl.search,
        hash |-> tl.hash]
  ELSE [ok |-> FALSE, protocol |-> "", hostname |-> <<>>, pathname |-> "",
        search |-> <<>>, hash |-> <<>>]

URLAt(url, hostPos) ==
  URLRecord(url, hostPos, TailParts(SubSeq(url, hostPos + 1, Len(url))))

NewURL(url) == URLAt(url, 3 + WwwRun(SubSeq(url, 3, Len(url))))

\* hostname.replace(/^www\./i, ''): removes one leading label
StripWww(hostname) ==
  IF hostname # <<>> /\ ToLowerTok(Head(hostname)) = "www." THEN Tail(hostname)
  ELSE hostname

\* URLNormalizer.normalizeUrl
\* a variant that keeps the query string
normalizedOfKeepQuery(url, urlObj) ==
  IF urlObj.ok
  THEN toLowerCase(<<urlObj.protocol, "//">> \o StripWww(urlObj.hostname)
                   \o <<urlObj.pathname>> \o urlObj.search)
  ELSE url

\* a variant whose catch returns the empty string
normalizedOfEmpty(url, urlObj) ==
  IF urlObj.ok
  THEN toLowerCase(<<urlObj.protocol, "//">> \o StripWww(urlObj.hostname)
                   \o <<urlObj.pathname>>)
  ELSE <<>>

\* the try block and the catch of normalizeUrl, for the parsed urlObj
normalizedOf(url, urlObj) ==
  IF urlObj.ok
  THEN toLowerCase(<<urlObj.protocol, "//">> \o StripWww(urlObj.hostname)
                   \o <<urlObj.pathname>>)
  ELSE url

normalizeUrl(url) == normalizedOf(url, NewURL(url))

\* a variant that compares the URLs as they are
shouldRecordNewVisitRaw(oldUrl, newUrl) == oldUrl # newUrl

\* a variant that normalizes the new URL only
shouldRecordNewVisitHalf(oldUrl, newUrl) == oldUrl # normalizeUrl(newUrl)

\* URLNormalizer.shouldRecordNewVisit
shouldRecordNewVisit(oldUrl, newUrl) ==
  normalizeUrl(oldUrl) # normalizeUrl(newUrl)

(***************************************************************************)
(* Input strings                                                           *)
(***************************************************************************)
WwwRuns == UNION {[1..n -> WwwTok] : n \in 0..MaxWww}
Opt(S) == {<<>>} \cup {<<t>> : t \in S}

\* every absolute URL of the token grammar
AbsoluteUrls ==
  {<<s, "//">> \o w \o <<h>> \o p \o q \o f :
     s \in SchemeTok, w \in WwwRuns, h \in HostTok,
     p \in Opt(PathTok), q \in Opt(QueryTok), f \in Opt(FragTok)}

\* strings new URL() rejects: empty, scheme-less, relative, protocol-relative
MalformedUrls ==
  {<<>>, <<"a.com", "/x">>, <<"WWW.", "A.COM", "/X">>, <<"/x">>,
   <<"/X", "?q=1">>, <<"//", "www.", "a.com">>, <<"https:">>,
   <<"https:", "//">>}

UrlInputs == AbsoluteUrls \cup MalformedUrls

NoUrl == <<"<none>">>

(***************************************************************************)
(* The document                                                            *)
(*                                                                         *)
(* doc.body  : document.body is an element (FALSE: document.body is null)  *)
(* doc.nodes : the other elements in document order; parent 0 is the body  *)
(*             (the root element when there is no body).  An element's own *)
(*             text precedes its child elements.                           *)
(* Text is a sequence of "w" (two or more letters), "l" (one letter), "9" *)
(* (one character that is neither a letter nor white space) and " " (one   *)
(* white-space character).                                                 *)
(***************************************************************************)
TextTok == {"w", "l", "9", " "}

\* an element; html = FALSE is an element that is not an HTMLElement (its
\* style, alt, src, innerText and naturalWidth properties are undefined);
\* href and src are NoUrl when the attribute is absent
Elem(tag, cls, parent, text) ==
  [tag |-> tag, cls |-> cls, parent |-> parent, text |-> text,
   html |-> TRUE, href |-> NoUrl,
   src |-> NoUrl, alt |-> 0, naturalWidth |-> 0, naturalHeight |-> 0,
   rectWidth |-> 0, rectHeight |-> 0, display |-> "", visibility |-> ""]

\* <a href=...>text</a>
Link(parent, href, text) ==
  [Elem("a", "", parent, text) EXCEPT !.href = href]

\* <img src=... alt=...>; alt is the length of the alt text, src is the
\* value of the src property (the attribute resolved to an absolute URL)
Img(parent, html, src, alt, nw, nh, rw, rh) ==
  [Elem("img", "", parent, <<>>) EXCEPT !.html = html, !.src = src,
     !.alt = alt, !.naturalWidth = nw, !.naturalHeight = nh,
     !.rectWidth = rw, !.rectHeight = rh]

RECURSIVE IsUnder(_, _, _)
\* element j is element i or a descendant of it
IsUnder(doc, j, i) ==
  \/ j = i
  \/ j # 0 /\ IsUnder(doc, doc.nodes[j].parent, i)

RECURSIVE Concat(_, _, _)
\* concatenation of f[i] for the i of lo..Len(f) that are in S
Concat(f, S, lo) ==
  IF lo > Len(f) THEN <<>>
  ELSE (IF lo \in S THEN f[lo] ELSE <<>>) \o Concat(f, S, lo + 1)

(***************************************************************************)
(* TextAnalyzer                                                            *)
(***************************************************************************)
\* contentSelectors
matchesContentSelector(n) ==
  \/ n.tag \in {"main", "article"}
  \/ n.cls \in {"role=main", "content", "main-content", "post-content",
                "entry-content", "#content", "#main"}

\* excludeSelectors
matchesExcludeSelector(n) ==
  \/ n.tag \in {"nav", "header", "footer", "aside", "script", "style"}
  \/ n.cls \in {"nav", "header", "footer", "sidebar", "menu",
                "advertisement", "ad", "banner"}

\* document.querySelector(contentSelectors.join(', ')): the first match in
\* document order, 0 for null
querySelectorContent(doc) ==
  LET M == {i \in 1..Len(doc.nodes) : matchesContentSelector(doc.nodes[i])}
  IN IF M = {} THEN 0 ELSE CHOOSE i \in M : \A j \in M : i <= j

\* a variant that removes the elements matching a tag selector only
removedFromCloneTagsOnly(doc, root) ==
  {j \in 1..Len(doc.nodes) :
     \E k \in 1..Len(doc.nodes) :
        /\ k # root
        /\ IsUnder(doc, k, root)
        /\ doc.nodes[k].tag \in {"nav", "header", "footer", "aside", "script",
                                 "style"}
        /\ IsUnder(doc, j, k)}

\* elements of the clone of root that the forEach/remove loop deletes
removedFromClone(doc, root) ==
  {j \in 1..Len(doc.nodes) :
     \E k \in 1..Len(doc.nodes) :
        /\ k # root
        /\ IsUnder(doc, k, root)
        /\ matchesExcludeSelector(doc.nodes[k])
        /\ IsUnder(doc, j, k)}

\* el.remove() for each element of removed: the elements left, in document
\* order, with their parents renumbered
removeElements(doc, removed) ==
  LET keep == (1..Len(doc.nodes)) \ removed
      rank == [i \in 0..Len(doc.nodes) |->
                 Cardinality({j \in keep : j <= i})]
  IN [doc EXCEPT !.nodes =
        [k \in 1..Cardinality(keep) |->
           [doc.nodes[CHOOSE i \in keep : rank[i] = k] EXCEPT
              !.parent = rank[@]]]]

\* a variant in which the removals are made in the page's own elements
documentAfterCountWordsInPlace(doc) ==
  IF querySelectorContent(doc) = 0 /\ ~doc.body THEN doc
  ELSE removeElements(doc, removedFromClone(doc, querySelectorContent(doc)))

\* the page's document after countContentWords: cloneNode(true) makes a
\* detached copy and the removals are made in the copy; the fallback only
\* reads document.body.innerText
documentAfterCountWords(doc) == doc

\* clone.innerText after the removals (the clone is detached, so this is
\* its text content)
cloneInnerText(doc, root) ==
  LET keep == {j \in 1..Len(doc.nodes) : IsUnder(doc, j, root)}
                \ removedFromClone(doc, root)
  IN Concat([j \in 1..Len(doc.nodes) |-> doc.nodes[j].text], keep, 1)

\* document.body.innerText of the rendered page: script and style
\* contribute nothing, elements are separated by white space
bodyInnerText(doc) ==
  LET shown == {j \in 1..Len(doc.nodes) :
                  ~\E k \in 1..Len(doc.nodes) :
                      /\ doc.nodes[k].tag \in {"script", "style"}
                      /\ IsUnder(doc, j, k)}
  IN Concat([j \in 1..Len(doc.nodes) |-> doc.nodes[j].text \o <<" ">>],
            shown, 1)

RECURSIVE collapseSpaces(_)
\* .replace(/\s+/g, ' ')
collapseSpaces(t) ==
  IF Len(t) < 2 THEN t
  ELSE IF t[1] = " " /\ t[2] = " " THEN collapseSpaces(Tail(t))
  ELSE <<t[1]>> \o collapseSpaces(Tail(t))

\* .trim()
trimEnd(a) ==
  IF a # <<>> /\ a[Len(a)] = " " THEN SubSeq(a, 1, Len(a) - 1) ELSE a

trim(t) == trimEnd(IF t # <<>> /\ t[1] = " " THEN Tail(t) ELSE t)

\* TextAnalyzer.cleanText
cleanText(text) ==
  trim(collapseSpaces([i \in 1..Len(text) |->
                         IF text[i] \in {"w", "l"} THEN text[i] ELSE " "]))

\* cleanedText.match(/\p{L}+/gu).length: maximal runs of letters
letterRuns(t) ==
  Cardinality({i \in 1..Len(t) : t[i] # " " /\ (i = 1 \/ t[i - 1] = " ")})

\* cleaned.split(/\s+/).length
splitLength(t) == 1 + Cardinality({i \in 1..Len(t) : t[i] = " "})

Returned(v) == [raised |-> FALSE, value |-> v]
Raised == [raised |-> TRUE, value |-> 0]

\* cleaned ? cleaned.split(/\s+/).length : 0
splitCount(cleaned) == IF cleaned # <<>> THEN splitLength(cleaned) ELSE 0

\* TextAnalyzer.fallbackWordCount: reads document.body.innerText
fallbackWordCount(doc) ==
  IF ~doc.body THEN Raised
  ELSE Returned(splitCount(cleanText(bodyInnerText(doc))))

\* words ? words.length : 0 for the cleaned text
matchCount(cleanedText) ==
  IF cleanedText = <<>> THEN 0 ELSE letterRuns(cleanedText)

\* the body of countContentWords for contentElement || document.body, where
\* element is 0 when the content selectors match nothing
wordsOfElement(doc, element) ==
  IF element = 0 /\ ~doc.body
  THEN \* null.cloneNode throws, the catch calls the fallback
       fallbackWordCount(doc)
  ELSE Returned(matchCount(cleanText(
         IF element # 0 /\ ~doc.nodes[element].html
         THEN <<>>   \* innerText is undefined, '' is used
         ELSE cloneInnerText(doc, element))))

\* TextAnalyzer.countContentWords
countContentWords(doc) == wordsOfElement(doc, querySelectorContent(doc))

(***************************************************************************)
(* LinkAnalyzer                                                            *)
(***************************************************************************)
\* element.closest(selector list): the element or an ancestor has one of
\* the tags or one of the classes
closest(doc, i, tags, classes) ==
  \E k \in 1..Len(doc.nodes) :
     /\ IsUnder(doc, i, k)
     /\ doc.nodes[k].tag \in tags \/ doc.nodes[k].cls \in classes

\* element.textContent
textContent(doc, i) ==
  Concat([j \in 1..Len(doc.nodes) |-> doc.nodes[j].text],
         {j \in 1..Len(doc.nodes) : IsUnder(doc, j, i)}, 1)

\* text.length > 1 for a trimmed text
longerThanOne(t) == Len(t) > 1 \/ (Len(t) = 1 /\ t[1] = "w")

RECURSIVE trimAll(_)
\* String.prototype.trim on a text with any amount of white space
trimAll(t) ==
  IF t # <<>> /\ t[1] = " " THEN trimAll(Tail(t))
  ELSE IF t # <<>> /\ t[Len(t)] = " " THEN trimAll(SubSeq(t, 1, Len(t) - 1))
  ELSE t

\* a variant that does not look at the region the link sits in
isNonContentLinkTextOnly(doc, i) ==
  /\ ~longerThanOne(trimAll(textContent(doc, i)))
  /\ ~\E j \in 1..Len(doc.nodes) :
        j # i /\ IsUnder(doc, j, i) /\ doc.nodes[j].tag = "img"

\* LinkAnalyzer.isNonContentLink
isNonContentLink(doc, i) ==
  LET inNav == closest(doc, i, {"nav", "header", "footer"},
                       {"nav", "header", "footer", "menu"})
      hasMeaningfulText == longerThanOne(trimAll(textContent(doc, i)))
      hasImage == \E j \in 1..Len(doc.nodes) :
                     j # i /\ IsUnder(doc, j, i) /\ doc.nodes[j].tag = "img"
  IN inNav \/ (~hasMeaningfulText /\ ~hasImage)

\* LinkAnalyzer.isMeaningfulLink
isMeaningfulLink(href) ==
  /\ ~(href # <<>> /\ ToLowerTok(href[1]) \in
         {"#", "#frag", "javascript:", "tel:", "mailto:", "data:",
          "about:blank"})
  /\ trimAll(href) # <<>>

\* href.startsWith('http')
startsWithHttp(href) == href # <<>> /\ href[1] \in {"https:", "http:"}

\* hostname.endsWith('.' + currentDomain)
endsWithDot(hostname, currentDomain) ==
  /\ currentDomain # <<>>
  /\ Len(hostname) > Len(currentDomain)
  /\ SubSeq(hostname, Len(hostname) - Len(currentDomain) + 1, Len(hostname))
       = currentDomain

\* a variant whose catch returns true
sameDomainOrUnparsed(url, currentDomain) ==
  ~url.ok \/ url.hostname = currentDomain
          \/ endsWithDot(url.hostname, currentDomain)

\* url.hostname === currentDomain || url.hostname.endsWith(...), false in
\* the catch of a failed new URL
sameDomain(url, currentDomain) ==
  url.ok /\ (url.hostname = currentDomain
             \/ endsWithDot(url.hostname, currentDomain))

\* a variant that takes only the page's own hostname for internal
isInternalLinkExact(href, currentDomain) ==
  IF href # <<>> /\ href[1] \in PathTok \cup {"//", "./", "../"} THEN TRUE
  ELSE IF startsWithHttp(href)
       THEN NewURL(href).ok /\ NewURL(href).hostname = currentDomain
       ELSE TRUE

\* LinkAnalyzer.isInternalLink
isInternalLink(href, currentDomain) ==
  IF href # <<>> /\ href[1] \in PathTok \cup {"//", "./", "../"} THEN TRUE
  ELSE IF startsWithHttp(href) THEN sameDomain(NewURL(href), currentDomain)
       ELSE TRUE

\* url.hostname !== currentDomain && !url.hostname.endsWith(...), false in
\* the catch of a failed new URL
otherDomain(url, currentDomain) ==
  url.ok /\ url.hostname # currentDomain
         /\ ~endsWithDot(url.hostname, currentDomain)

\* a variant that takes every http link for external
isExternalLinkAnyHost(href, currentDomain) == startsWithHttp(href)

\* LinkAnalyzer.isExternalLink
isExternalLink(href, currentDomain) ==
  IF ~startsWithHttp(href) THEN FALSE
  ELSE otherDomain(NewURL(href), currentDomain)

\* the counts of countContentLinks for the filtered links and the
\* current domain
linkCounts(doc, meaningfulLinks, currentDomain) ==
  [total |-> Cardinality(meaningfulLinks),
   internal |-> Cardinality({i \in meaningfulLinks :
                  isInternalLink(doc.nodes[i].href, currentDomain)}),
   external |-> Cardinality({i \in meaningfulLinks :
                  isExternalLink(doc.nodes[i].href, currentDomain)})]

\* LinkAnalyzer.countContentLinks; location is window.location.href
countContentLinks(doc, location) ==
  Returned(linkCounts(doc,
    {i \in 1..Len(doc.nodes) :
       /\ doc.nodes[i].tag = "a" /\ doc.nodes[i].href # NoUrl
       /\ ~isNonContentLink(doc, i)
       /\ isMeaningfulLink(doc.nodes[i].href)},
    NewURL(location).hostname))

(***************************************************************************)
(* ImageAnalyzer                                                           *)
(***************************************************************************)
\* a variant that looks at the alt text before the natural size
isContentImageAltFirst(doc, i) ==
  IF doc.nodes[i].html /\ doc.nodes[i].alt > 10 /\ doc.nodes[i].rectWidth > 0
  THEN Returned(TRUE)
  ELSE Returned(FALSE)

\* ImageAnalyzer.isContentImage: value is the boolean returned, raised is
\* the TypeError of reading a property of undefined
isContentImage(doc, i) ==
  LET img == doc.nodes[i]
      tooSmall == img.html /\ (img.naturalWidth < 50 \/ img.naturalHeight < 50)
      inNonContentArea == closest(doc, i, {"nav", "header"},
                                  {"nav", "header", "menu", "icon"})
      hasBox == img.rectWidth > 0 /\ img.rectHeight > 0
      isVisible == hasBox /\ img.display # "none" /\ img.visibility # "hidden"
      hasAltText == img.alt > 10
      src == toLowerCase(img.src)
      isLikelyContent == \/ hasAltText
                         \/ \E k \in 1..Len(src) :
                               src[k] \in {"/media/", "/images/", "upload"}
                         \/ img.rectWidth > 200
  IN IF tooSmall \/ inNonContentArea THEN Returned(FALSE)
     ELSE IF ~img.html THEN Raised
     ELSE Returned(isVisible /\ isLikelyContent)

\* a variant whose catch keeps the number of images found
imageCountsKeepTotal(allImages, isContent) ==
  IF \E i \in allImages : isContent[i].raised
  THEN [total |-> Cardinality(allImages), content |-> 0, decorative |-> 0]
  ELSE [total |-> Cardinality(allImages),
        content |-> Cardinality({i \in allImages : isContent[i].value}),
        decorative |-> Cardinality({i \in allImages : ~isContent[i].value})]

\* the counts of countContentImages for the images found and the results
\* of classifying them; the catch returns zeros
imageCounts(allImages, isContent) ==
  IF \E i \in allImages : isContent[i].raised
  THEN [total |-> 0, content |-> 0, decorative |-> 0]
  ELSE [total |-> Cardinality(allImages),
        content |-> Cardinality({i \in allImages : isContent[i].value}),
        decorative |-> Cardinality({i \in allImages : ~isContent[i].value})]

\* ImageAnalyzer.countContentImages
countContentImages(doc) ==
  Returned(imageCounts(
    {i \in 1..Len(doc.nodes) :
       doc.nodes[i].tag = "img" /\ doc.nodes[i].src # NoUrl},
    [i \in 1..Len(doc.nodes) |->
       IF doc.nodes[i].tag = "img" THEN isContentImage(doc, i)
       ELSE Returned(FALSE)]))

(***************************************************************************)
(* PageMetricsExtractor                                                    *)
(***************************************************************************)
\* the object extractMetrics returns for the analyzers' results; an
\* exception of an analyzer is not caught there
PageMetrics(url, wordCount, linkAnalysis, imageAnalysis) ==
  IF wordCount.raised \/ linkAnalysis.raised \/ imageAnalysis.raised
  THEN Raised
  ELSE Returned([url |-> url,
                 link_count |-> linkAnalysis.value.total,
                 internal_links |-> linkAnalysis.value.internal,
                 external_links |-> linkAnalysis.value.external,
                 image_count |-> imageAnalysis.value.total,
                 content_images |-> imageAnalysis.value.content,
                 decorative_images |-> imageAnalysis.value.decorative,
                 word_count |-> wordCount.value])

\* a variant that reports the normalized URL
extractMetricsNormalized(d, location) ==
  PageMetrics(normalizeUrl(location), countContentWords(d),
              countContentLinks(d, location), countContentImages(d))

\* PageMetricsExtractor.extractMetrics; location is window.location.href
extractMetrics(doc, location) ==
  PageMetrics(location, countContentWords(doc),
              countContentLinks(doc, location), countContentImages(doc))

(***************************************************************************)
(* State                                                                   *)
(***************************************************************************)
VARIABLES
  href,            \* window.location.href of the page
  doc,             \* the page's document
  readyState,      \* document.readyState: "loading" or "interactive"
  pc,              \* "start": the content script's top level has not run
  listening,       \* the TAB_UPDATED message listener is installed
  hooked,          \* observer, history wrappers and popstate listener are on
  initRan,         \* initializeContentScript has been called
  lastUrl,         \* NavigationHandler.lastUrl
  navigationTimer, \* NavigationHandler.navigationTimer, 0 for undefined
  timers,          \* pending timeouts: [id, newUrl] of each callback
  nextTimerId,     \* the handle the next window.setTimeout returns
  observerLastUrl, \* the module-level lastUrl of the MutationObserver
  sent,            \* PAGE_VISIT messages passed to chrome.runtime.sendMessage
  toContent,       \* messages in flight from the background to the content
                   \* script of the tab
  bgReceived,      \* number of PAGE_VISIT messages the background has handled
  posts,           \* POST /visits requests issued by the background
  events,          \* URL changes, DOM rewrites and tab events so far
  lastTrigger,     \* history: the URL of the latest handleNavigation call
  burstLen,        \* history: handleNavigation calls of the current burst (a
                   \* burst starts with a call made while no timer is pending)
  burstEvals,      \* history: shouldRecordNewVisit calls since the burst began
  burstSent,       \* history: PAGE_VISIT messages emitted by timer callbacks
                   \* since the burst began
  loadUrl,         \* history: the URL the page was loaded with
  samePage,        \* history: the page's URL and every handleNavigation
                   \* candidate so far normalize like loadUrl
  urlIn,           \* input of the normalizeUrl run
  urlOnce,         \* normalizeUrl(urlIn), NoUrl before the call
  urlTwice,        \* normalizeUrl(urlOnce), NoUrl before the call
  urlNew,          \* second input of the shouldRecordNewVisit run
  urlNewOnce,      \* normalizeUrl(urlNew), NoUrl before the call
  recorded,        \* result of shouldRecordNewVisit(urlIn, urlNew)
  analysis,        \* results of the analyzer runs
  requests,        \* OPEN_SIDE_PANEL and other messages sent to the background
  panel,           \* the side panel: its React state (currentUrl, loading,
                   \* error; shown is the fetchPageData call whose results are
                   \* in currentMetrics and visitHistory, 0 for none), the URL
                   \* of the active tab, the chrome.tabs.query calls that are
                   \* running and the fetchPageData calls in starting order
  buttonTimer      \* history: handle of the timeout started by the mutation
                   \* that adds the side-panel button, 0 for none

scriptVars == <<href, doc, readyState, pc, listening, hooked, initRan,
                lastUrl, navigationTimer, timers, nextTimerId, observerLastUrl,
                sent, toContent, bgReceived, posts, events, lastTrigger,
                burstLen, burstEvals, burstSent, loadUrl, samePage>>
navVars == <<scriptVars, requests, panel, buttonTimer>>
visitVars == <<urlNew, urlNewOnce, recorded>>
urlVars == <<urlIn, urlOnce, urlTwice, visitVars>>
vars == <<navVars, urlVars, analysis>>

Url(w, p, q) == <<"https:", "//">> \o w \o <<"a.com">> \o <<p>> \o q

\* the URLs the page visits
NavUrls ==
  {Url(<<>>, "/x", <<>>), Url(<<"www.">>, "/x", <<"?q=1">>),
   Url(<<>>, "/y", <<>>)}

\* <body><nav>Menu</nav><main>Hello world!</main></body>
NavMainDoc ==
  [body |-> TRUE,
   nodes |-> <<Elem("nav", "", 0, <<"w">>),
               Elem("main", "", 0, <<"w", " ", "w", "9">>)>>]

\* a document without a body element and without elements
NoBodyDoc == [body |-> FALSE, nodes |-> <<>>]

\* the documents the page shows
NavDocs == {NavMainDoc, NoBodyDoc}

\* analysis.stage counts the calls that have run: words, links, images and
\* then the extraction, whose messages are the ones sendPageMetrics sends
NoAnalysis ==
  [stage |-> 0,
   words |-> Returned(0),
   links |-> Returned([total |-> 0, internal |-> 0, external |-> 0]),
   images |-> Returned([total |-> 0, content |-> 0, decorative |-> 0]),
   metrics |-> Returned([url |-> NoUrl, link_count |-> 0,
                         internal_links |-> 0, external_links |-> 0,
                         image_count |-> 0, content_images |-> 0,
                         decorative_images |-> 0, word_count |-> 0]),
   messages |-> <<>>]

(***************************************************************************)
(* Content script                                                          *)
(***************************************************************************)
\* chrome.runtime.sendMessage of a PAGE_VISIT with the metrics; an exception
\* of extractMetrics is caught and nothing is sent
sendMessage(msgs, metrics) ==
  IF metrics.raised THEN msgs
  ELSE Append(msgs, [type |-> "PAGE_VISIT", data |-> metrics.value])

\* sendPageMetrics: the message list after the call
sendPageMetrics(d, location, msgs) ==
  sendMessage(msgs, extractMetrics(d, location))

\* addSidePanelButton: the document after the call (the button replaces an
\* earlier one and is appended to the body)
addSidePanelButton(d) ==
  LET others == SelectSeq(d.nodes,
                          LAMBDA n : n.cls # "#history-sidepanel-button")
  IN [d EXCEPT !.nodes =
        Append(others, Elem("button", "#history-sidepanel-button", 0,
                            <<"9", " ", "w", " ", "w", " ", "w">>))]

\* a variant that stores the normalized URL
setInitialUrlNormalized(url) == normalizeUrl(url)

\* NavigationHandler.setInitialUrl
setInitialUrl(url) == url

\* initializeContentScript; document.body.appendChild throws when there is
\* no body, and the listeners are then never set up
initializeContentScript ==
  /\ initRan' = TRUE
  /\ lastUrl' = setInitialUrl(href)
  /\ sent' = sendPageMetrics(doc, href, sent)
  /\ IF doc.body
     THEN /\ doc' = addSidePanelButton(doc)
          /\ listening' = TRUE
     ELSE /\ doc' = doc
          /\ listening' = FALSE

\* NavigationHandler.handleNavigation without the clearTimeout
handleNavigationNoClear(newUrl) ==
  /\ timers' = timers \cup {[id |-> nextTimerId, newUrl |-> newUrl]}
  /\ navigationTimer' = nextTimerId
  /\ nextTimerId' = nextTimerId + 1
  /\ lastTrigger' = newUrl
  /\ burstLen' = IF timers = {} THEN 1 ELSE burstLen + 1
  /\ burstEvals' = IF timers = {} THEN 0 ELSE burstEvals
  /\ burstSent' = IF timers = {} THEN 0 ELSE burstSent

\* NavigationHandler.handleNavigation: clearTimeout, then setTimeout
handleNavigation(newUrl) ==
  /\ timers' = {t \in timers : t.id # navigationTimer}
                 \cup {[id |-> nextTimerId, newUrl |-> newUrl]}
  /\ navigationTimer' = nextTimerId
  /\ nextTimerId' = nextTimerId + 1
  /\ lastTrigger' = newUrl
  /\ burstLen' = IF timers = {} THEN 1 ELSE burstLen + 1
  /\ burstEvals' = IF timers = {} THEN 0 ELSE burstEvals
  /\ burstSent' = IF timers = {} THEN 0 ELSE burstSent

navigationVars == <<navigationTimer, timers, nextTimerId, lastTrigger,
                    burstLen, burstEvals, burstSent>>

\* the history variable samePage after the page's URL or a candidate
\* became u
SamePageAfter(u) == samePage /\ normalizeUrl(u) = normalizeUrl(loadUrl)
backgroundVars == <<bgReceived, posts>>
otherVars == <<urlVars, analysis, loadUrl, requests, panel, buttonTimer>>

\* the MutationObserver callback
observerCallback ==
  IF href # observerLastUrl
  THEN /\ observerLastUrl' = href
       /\ handleNavigation(href)
  ELSE UNCHANGED <<observerLastUrl, navigationVars>>

\* the top level of the content script: initialize now or on
\* DOMContentLoaded, then observe document.body and wrap the history API.
\* An exception (no body) ends the script at that statement.
RunContentScript ==
  /\ pc = "start"
  /\ pc' = "loaded"
  /\ IF readyState # "loading"
     THEN /\ initializeContentScript
          /\ observerLastUrl' = IF doc.body THEN href ELSE observerLastUrl
     ELSE /\ observerLastUrl' = href
          /\ UNCHANGED <<initRan, lastUrl, sent, doc, listening>>
  /\ hooked' = doc.body
  /\ UNCHANGED <<href, readyState, navigationVars, toContent,
                 backgroundVars, events, otherVars, samePage>>

\* the DOMContentLoaded listener; appending the button is a mutation of the
\* observed body
DOMContentLoaded ==
  /\ pc = "loaded"
  /\ readyState = "loading"
  /\ readyState' = "interactive"
  /\ initializeContentScript
  /\ IF hooked /\ doc.body THEN observerCallback
     ELSE UNCHANGED <<observerLastUrl, navigationVars>>
  /\ buttonTimer' = IF timers' # timers THEN navigationTimer' ELSE buttonTimer
  /\ UNCHANGED <<href, pc, hooked, toContent, backgroundVars, events,
                 urlVars, analysis, loadUrl, requests, panel, samePage>>

\* the page changes its URL without a call the content script sees (a
\* history call in the page's own script world, a fragment navigation)
PageNavigate(u) ==
  /\ pc = "loaded"
  /\ events < MaxEvents
  /\ u # href
  /\ href' = u
  /\ events' = events + 1
  /\ samePage' = SamePageAfter(u)
  /\ UNCHANGED <<doc, readyState, pc, listening, hooked, initRan, lastUrl,
                 navigationVars, observerLastUrl, sent, toContent,
                 backgroundVars, otherVars>>

\* handleNavigationChange after the URL has become u
historyChange(u) ==
  /\ pc = "loaded"
  /\ hooked
  /\ events < MaxEvents
  /\ href' = u
  /\ events' = events + 1
  /\ handleNavigation(u)
  /\ samePage' = SamePageAfter(u)
  /\ UNCHANGED <<doc, readyState, pc, listening, hooked, initRan, lastUrl,
                 observerLastUrl, sent, toContent, backgroundVars, otherVars>>

\* the history.pushState wrapper
pushState(u) == historyChange(u)

\* the history.replaceState wrapper
replaceState(u) == historyChange(u)

\* the popstate listener
popstate(u) == u # href /\ historyChange(u)

\* the page rewrites its DOM; a change inside the observed body runs the
\* MutationObserver callback
DomMutation(d) ==
  /\ pc = "loaded"
  /\ events < MaxEvents
  /\ doc' = d
  /\ events' = events + 1
  /\ IF hooked /\ doc.body /\ d.body THEN observerCallback
     ELSE UNCHANGED <<observerLastUrl, navigationVars>>
  /\ UNCHANGED <<href, readyState, pc, listening, hooked, initRan, lastUrl,
                 sent, toContent, backgroundVars, otherVars, samePage>>

\* the callback of NavigationHandler.handleNavigation's timeout
TimerFire(t) ==
  /\ t \in timers
  /\ timers' = timers \ {t}
  /\ burstEvals' = burstEvals + 1
  /\ IF shouldRecordNewVisit(lastUrl, t.newUrl)
     THEN /\ lastUrl' = t.newUrl
          /\ sent' = sendPageMetrics(doc, href, sent)
     ELSE UNCHANGED <<lastUrl, sent>>
  /\ burstSent' = burstSent + (Len(sent') - Len(sent))
  /\ UNCHANGED <<href, doc, readyState, pc, listening, hooked, initRan,
                 navigationTimer, nextTimerId, lastTrigger, burstLen,
                 samePage, observerLastUrl, toContent, backgroundVars,
                 events, otherVars>>

\* a variant of the listener that takes every message for a navigation
ContentScriptOnMessageAnyType ==
  /\ toContent # <<>>
  /\ toContent' = Tail(toContent)
  /\ IF listening
     THEN /\ handleNavigation(Head(toContent).url)
          /\ samePage' = SamePageAfter(Head(toContent).url)
     ELSE UNCHANGED <<navigationVars, samePage>>
  /\ UNCHANGED <<href, doc, readyState, pc, listening, hooked, initRan,
                 lastUrl, observerLastUrl, sent, backgroundVars, events,
                 otherVars>>

\* the content script's chrome.runtime.onMessage listener: a TAB_UPDATED
\* message calls handleNavigation, a message of another type does nothing;
\* without a listener the message is dropped
ContentScriptOnMessage ==
  /\ toContent # <<>>
  /\ toContent' = Tail(toContent)
  /\ IF listening /\ Head(toContent).type = "TAB_UPDATED"
     THEN /\ handleNavigation(Head(toContent).url)
          /\ samePage' = SamePageAfter(Head(toContent).url)
     ELSE UNCHANGED <<navigationVars, samePage>>
  /\ UNCHANGED <<href, doc, readyState, pc, listening, hooked, initRan,
                 lastUrl, observerLastUrl, sent, backgroundVars, events,
                 otherVars>>

(***************************************************************************)
(* Background worker                                                       *)
(***************************************************************************)
\* notifySidePanels: the message queue of the tab after the broadcast of
\* type for url to every tab with an http(s) URL
notifySidePanels(queue, type, url, tabUrl) ==
  IF startsWithHttp(tabUrl) THEN Append(queue, [type |-> type, url |-> url])
  ELSE queue

\* chrome.tabs.onUpdated listener: status 'complete' and an http(s) tab.url.
\* TAB_UPDATED is sent at once, the PAGE_LOADED broadcast in the callback of
\* chrome.tabs.query
TabComplete ==
  /\ events < MaxEvents
  /\ startsWithHttp(href)
  /\ events' = events + 1
  /\ toContent' = notifySidePanels(
                     Append(toContent, [type |-> "TAB_UPDATED", url |-> href]),
                     "PAGE_LOADED", href, href)
  /\ UNCHANGED <<href, doc, readyState, pc, listening, hooked, initRan,
                 lastUrl, navigationVars, observerLastUrl, sent,
                 backgroundVars, otherVars, samePage>>

\* chrome.tabs.onActivated listener: the user switches to the tab
TabActivated ==
  /\ events < MaxEvents
  /\ startsWithHttp(href)
  /\ events' = events + 1
  /\ toContent' = notifySidePanels(toContent, "TAB_SWITCHED", href, href)
  /\ UNCHANGED <<href, doc, readyState, pc, listening, hooked, initRan,
                 lastUrl, navigationVars, observerLastUrl, sent,
                 backgroundVars, otherVars, samePage>>

\* a variant of the listener that answers before the POST has settled
ReceivePageVisitAnswerFirst ==
  /\ bgReceived < Len(sent)
  /\ bgReceived' = bgReceived + 1
  /\ posts' = Append(posts, [visit |-> bgReceived + 1,
                             body |-> sent[bgReceived + 1].data,
                             status |-> "pending",
                             notified |-> FALSE,
                             responses |-> 1])
  /\ UNCHANGED <<href, doc, readyState, pc, listening, hooked, initRan,
                 lastUrl, navigationVars, observerLastUrl, sent, toContent,
                 events, otherVars, samePage>>

\* the onMessage listener for PAGE_VISIT: recordVisit starts the POST
ReceivePageVisit ==
  /\ bgReceived < Len(sent)
  /\ bgReceived' = bgReceived + 1
  /\ posts' = Append(posts, [visit |-> bgReceived + 1,
                             body |-> sent[bgReceived + 1].data,
                             status |-> "pending",
                             notified |-> FALSE,
                             responses |-> 0])
  /\ UNCHANGED <<href, doc, readyState, pc, listening, hooked, initRan,
                 lastUrl, navigationVars, observerLastUrl, sent, toContent,
                 events, otherVars, samePage>>

\* outcomes of the fetch in apiRequest
PostOutcomes == {"ok", "notfound", "httperror", "networkerror"}

\* apiRequest throws on a network error and on a non-ok status other than 404
apiRequestThrows(outcome) == outcome \in {"httperror", "networkerror"}

\* a variant of recordVisit's continuation that posts a failed visit again
PostSettleRetry(i, outcome) ==
  /\ i \in 1..Len(posts)
  /\ posts[i].status = "pending"
  /\ LET settled == [posts EXCEPT ![i].status = outcome,
                                  ![i].notified = ~apiRequestThrows(outcome),
                                  ![i].responses = @ + 1]
     IN posts' = IF apiRequestThrows(outcome) /\ Len(posts) <= Len(sent)
                 THEN Append(settled, [posts[i] EXCEPT !.status = "pending"])
                 ELSE settled
  /\ UNCHANGED <<href, doc, readyState, pc, listening, hooked, initRan,
                 lastUrl, navigationVars, observerLastUrl, sent, toContent,
                 bgReceived, events, otherVars, samePage>>

\* the POST of recordVisit settles: on success PAGE_VISIT_RECORDED is
\* broadcast, on failure the error is logged; then the response is sent
PostSettle(i, outcome) ==
  /\ i \in 1..Len(posts)
  /\ posts[i].status = "pending"
  /\ posts' = [posts EXCEPT ![i].status = outcome,
                            ![i].notified = ~apiRequestThrows(outcome),
                            ![i].responses = @ + 1]
  /\ toContent' = IF apiRequestThrows(outcome) THEN toContent
                  ELSE notifySidePanels(toContent, "PAGE_VISIT_RECORDED",
                                        posts[i].body.url, href)
  /\ UNCHANGED <<href, doc, readyState, pc, listening, hooked, initRan,
                 lastUrl, navigationVars, observerLastUrl, sent,
                 bgReceived, events, otherVars, samePage>>

(***************************************************************************)
(* Specification of the extension                                          *)
(***************************************************************************)
\* recorded before shouldRecordNewVisit has been called
NotRecorded == [done |-> FALSE, value |-> FALSE]

IdleVisit == urlNew = NoUrl /\ urlNewOnce = NoUrl /\ recorded = NotRecorded

\* the side panel before it is opened; the active tab has no URL
NoPanel ==
  [mounted |-> FALSE, currentUrl |-> <<>>, shown |-> 0, loading |-> TRUE,
   error |-> FALSE, tabUrl |-> NoUrl, queries |-> <<>>, fetches |-> <<>>]

IdleMessages == requests = <<>> /\ panel = NoPanel /\ buttonTimer = 0

IdleUrl == urlIn = <<>> /\ urlOnce = NoUrl /\ urlTwice = NoUrl /\ IdleVisit

Init ==
  /\ href \in NavUrls
  /\ doc \in NavDocs
  /\ readyState \in {"loading", "interactive"}
  /\ pc = "start"
  /\ listening = FALSE
  /\ hooked = FALSE
  /\ initRan = FALSE
  /\ lastUrl = href
  /\ navigationTimer = 0
  /\ timers = {}
  /\ nextTimerId = 1
  /\ observerLastUrl = NoUrl
  /\ sent = <<>>
  /\ toContent = <<>>
  /\ bgReceived = 0
  /\ posts = <<>>
  /\ events = 0
  /\ lastTrigger = NoUrl
  /\ burstLen = 0
  /\ burstEvals = 0
  /\ burstSent = 0
  /\ loadUrl = href
  /\ samePage = TRUE
  /\ IdleMessages
  /\ IdleUrl
  /\ analysis = NoAnalysis

Next ==
  \/ RunContentScript
  \/ DOMContentLoaded
  \/ \E u \in NavUrls : PageNavigate(u)
  \/ \E u \in NavUrls : pushState(u)
  \/ \E u \in NavUrls : replaceState(u)
  \/ \E u \in NavUrls : popstate(u)
  \/ \E d \in NavDocs : DomMutation(d)
  \/ \E t \in timers : TimerFire(t)
  \/ TabComplete
  \/ TabActivated
  \/ ContentScriptOnMessage
  \/ ReceivePageVisit
  \/ \E i \in 1..Len(posts), o \in PostOutcomes : PostSettle(i, o)

Spec == Init /\ [][Next]_vars

\* a step in which the timeout t expires and its callback runs
Expires(t) ==
  /\ t \in timers
  /\ timers' = timers \ {t}
  /\ nextTimerId' = nextTimerId


\* the extension's state while only a function is exercised
IdleNav ==
  /\ href = Url(<<>>, "/x", <<>>)
  /\ readyState = "interactive"
  /\ pc = "start"
  /\ listening = FALSE
  /\ hooked = FALSE
  /\ initRan = FALSE
  /\ lastUrl = href
  /\ navigationTimer = 0
  /\ timers = {}
  /\ nextTimerId = 1
  /\ observerLastUrl = NoUrl
  /\ sent = <<>>
  /\ toContent = <<>>
  /\ bgReceived = 0
  /\ posts = <<>>
  /\ events = 0
  /\ lastTrigger = NoUrl
  /\ burstLen = 0
  /\ burstEvals = 0
  /\ burstSent = 0
  /\ loadUrl = href
  /\ samePage = TRUE
  /\ IdleMessages

(***************************************************************************)
(* Specification of the background's message handler                       *)
(*                                                                         *)
(* requests[i].stage is "sent" (on its way to the background), "query"     *)
(* (chrome.tabs.query is running), "opening" (chrome.sidePanel.open is     *)
(* running) or "done" (the handler has nothing left to do for it).         *)
(***************************************************************************)
messageVars == <<scriptVars, urlVars, analysis, panel, buttonTimer>>

\* chrome.runtime.sendMessage of a message of the given type
SendRequest(type) ==
  /\ Len(requests) < MaxEvents
  /\ requests' = Append(requests,
                        [type |-> type, stage |-> "sent", responses |-> 0])
  /\ UNCHANGED messageVars

\* the click listener of the side-panel button
ClickSidePanelButton ==
  /\ \E k \in 1..Len(doc.nodes) :
        doc.nodes[k].cls = "#history-sidepanel-button"
  /\ SendRequest("OPEN_SIDE_PANEL")

\* a message of a type the background does not know
SendOtherMessage == SendRequest("OTHER")

\* the background's onMessage listener for a message that is not a
\* PAGE_VISIT: OPEN_SIDE_PANEL starts chrome.tabs.query and keeps the
\* channel open, any other type is answered at once
BackgroundOnMessage(i) ==
  /\ requests[i].stage = "sent"
  /\ requests' =
       IF requests[i].type = "OPEN_SIDE_PANEL"
       THEN [requests EXCEPT ![i].stage = "query"]
       ELSE [requests EXCEPT ![i].stage = "done", ![i].responses = @ + 1]
  /\ UNCHANGED messageVars

\* the callback of chrome.tabs.query({active, currentWindow}): with a tab
\* that has an id chrome.sidePanel.open is called, else nothing is done
TabsQueried(i, hasTabId) ==
  /\ requests[i].stage = "query"
  /\ requests' = [requests EXCEPT
                    ![i].stage = IF hasTabId THEN "opening" ELSE "done"]
  /\ UNCHANGED messageVars

\* chrome.sidePanel.open settles: then and catch both call sendResponse
SidePanelOpenSettle(i, opened) ==
  /\ requests[i].stage = "opening"
  /\ requests' = [requests EXCEPT ![i].stage = "done",
                                  ![i].responses = @ + 1]
  /\ UNCHANGED messageVars

NextMessages ==
  \/ RunContentScript
  \/ DOMContentLoaded
  \/ ClickSidePanelButton
  \/ SendOtherMessage
  \/ \E i \in 1..Len(requests) : BackgroundOnMessage(i)
  \/ \E i \in 1..Len(requests), b \in BOOLEAN : TabsQueried(i, b)
  \/ \E i \in 1..Len(requests), b \in BOOLEAN : SidePanelOpenSettle(i, b)
  \/ ReceivePageVisit
  \/ \E i \in 1..Len(posts), o \in PostOutcomes : PostSettle(i, o)
  \/ ContentScriptOnMessage

\* the browser delivers every message and runs every callback, and every
\* fetch and every chrome.sidePanel.open settles
FairMessages ==
  /\ WF_vars(\E i \in 1..Len(requests) : BackgroundOnMessage(i))
  /\ WF_vars(\E i \in 1..Len(requests), b \in BOOLEAN : TabsQueried(i, b))
  /\ WF_vars(\E i \in 1..Len(requests), b \in BOOLEAN :
               SidePanelOpenSettle(i, b))
  /\ WF_vars(ReceivePageVisit)
  /\ WF_vars(\E i \in 1..Len(posts), o \in PostOutcomes : PostSettle(i, o))
  /\ WF_vars(ContentScriptOnMessage)

SpecMessages == Init /\ [][NextMessages]_vars /\ FairMessages

(***************************************************************************)
(* Specification of the side panel                                         *)
(***************************************************************************)
panelFrame == <<scriptVars, urlVars, analysis, requests, buttonTimer>>

\* URLs of the tabs the user looks at
PanelUrls == {Url(<<>>, "/x", <<>>), Url(<<>>, "/y", <<>>)}

\* the user switches to another tab or the tab goes to another page; NoUrl
\* is a tab whose URL the extension cannot read
TabChange(u) ==
  /\ u # panel.tabUrl
  /\ panel' = [panel EXCEPT !.tabUrl = u]
  /\ UNCHANGED panelFrame

\* the start of fetchPageData(url): setLoading(true), setError(''), and the
\* requests are sent
fetchPageData(p, url) ==
  [p EXCEPT !.loading = TRUE, !.error = FALSE,
            !.fetches = Append(@, [url |-> url, settled |-> FALSE])]

\* the effect on mount: initializeSidepanel calls chrome.tabs.query
initializeSidepanel ==
  /\ ~panel.mounted
  /\ panel' = [panel EXCEPT !.mounted = TRUE, !.queries = <<"init">>]
  /\ UNCHANGED panelFrame

\* handleExternalMessage: PAGE_LOADED, TAB_SWITCHED and PAGE_VISIT_RECORDED
\* call refreshAllData, which calls chrome.tabs.query
handleExternalMessage(type) ==
  /\ panel.mounted
  /\ Len(panel.queries) + Len(panel.fetches) <= MaxEvents
  /\ panel' = IF type \in {"PAGE_LOADED", "TAB_SWITCHED", "PAGE_VISIT_RECORDED"}
              THEN [panel EXCEPT !.queries = Append(@, "message")]
              ELSE panel
  /\ UNCHANGED panelFrame

\* chrome.tabs.query resolves in initializeSidepanel or refreshAllData: with
\* a tab URL setCurrentUrl and fetchPageData; without one initializeSidepanel
\* sets the error and clears loading, refreshAllData does nothing
TabsQueryResolve ==
  /\ panel.queries # <<>>
  /\ panel' =
       IF panel.tabUrl # NoUrl
       THEN fetchPageData([panel EXCEPT !.queries = Tail(@),
                                        !.currentUrl = panel.tabUrl],
                          panel.tabUrl)
       ELSE IF Head(panel.queries) = "init"
            THEN [panel EXCEPT !.queries = Tail(@), !.error = TRUE,
                               !.loading = FALSE]
            ELSE [panel EXCEPT !.queries = Tail(@)]
  /\ UNCHANGED panelFrame

\* handleRefresh: the button is rendered when loading is false
handleRefresh ==
  /\ panel.mounted
  /\ ~panel.loading
  /\ Len(panel.queries) + Len(panel.fetches) <= MaxEvents
  /\ panel' = IF panel.currentUrl # <<>>
              THEN fetchPageData(panel, panel.currentUrl)
              ELSE panel
  /\ UNCHANGED panelFrame

\* the continuation of fetchPageData after Promise.allSettled: the results
\* (null and [] for rejected requests) are stored, the error is set when
\* all requests were rejected, and finally setLoading(false)
FetchSettle(k, allRejected) ==
  /\ k \in 1..Len(panel.fetches)
  /\ ~panel.fetches[k].settled
  /\ panel' = [panel EXCEPT !.fetches[k].settled = TRUE,
                            !.shown = k,
                            !.error = allRejected \/ @,
                            !.loading = FALSE]
  /\ UNCHANGED panelFrame

InitPanel ==
  /\ IdleNav
  /\ IdleUrl
  /\ doc = NavMainDoc
  /\ analysis = NoAnalysis

NextPanel ==
  \/ \E u \in PanelUrls \cup {NoUrl} : TabChange(u)
  \/ initializeSidepanel
  \/ \E type \in {"PAGE_LOADED", "TAB_SWITCHED", "PAGE_VISIT_RECORDED",
                   "PAGE_VISIT"} : handleExternalMessage(type)
  \/ TabsQueryResolve
  \/ handleRefresh
  \/ \E k \in 1..Len(panel.fetches), r \in BOOLEAN : FetchSettle(k, r)

SpecPanel == InitPanel /\ [][NextPanel]_vars

(***************************************************************************)
(* Specification of normalizeUrl applied to an input and to its own result *)
(***************************************************************************)
InitUrl ==
  /\ IdleNav
  /\ doc = NavMainDoc
  /\ analysis = NoAnalysis
  /\ urlIn \in UrlInputs
  /\ urlOnce = NoUrl
  /\ urlTwice = NoUrl
  /\ IdleVisit

NormalizeOnce ==
  /\ urlOnce = NoUrl
  /\ urlOnce' = normalizeUrl(urlIn)
  /\ UNCHANGED <<navVars, analysis, urlIn, urlTwice, visitVars>>

NormalizeTwice ==
  /\ urlOnce # NoUrl
  /\ urlTwice = NoUrl
  /\ urlTwice' = normalizeUrl(urlOnce)
  /\ UNCHANGED <<navVars, analysis, urlIn, urlOnce, visitVars>>

NextUrl == NormalizeOnce \/ NormalizeTwice

SpecUrl == InitUrl /\ [][NextUrl]_vars

(***************************************************************************)
(* Specification of shouldRecordNewVisit applied to a pair of inputs       *)
(***************************************************************************)
\* second inputs: the same page written in other ways, other pages, and
\* strings new URL() rejects
PairUrls ==
  {<<"https:", "//", "a.com", "/x">>,
   <<"https:", "//", "www.", "a.com", "/x", "?q=1">>,
   <<"https:", "//", "a.com", "/x", "#frag">>,
   <<"HTTPS:", "//", "WWW.", "A.COM", "/x", "?q=2", "#frag">>,
   <<"https:", "//", "a.com", "/X">>,
   <<"https:", "//", "a.com", "/y">>,
   <<"https:", "//", "a.com">>,
   <<"http:", "//", "a.com", "/x">>,
   <<"https:", "//", "b.org", "/x">>,
   <<"https:", "//", "www.", "www.", "a.com", "/x">>,
   <<>>, <<"a.com", "/x">>, <<"/x">>, <<"https:", "//">>}

InitVisit ==
  /\ IdleNav
  /\ doc = NavMainDoc
  /\ analysis = NoAnalysis
  /\ urlIn \in UrlInputs
  /\ urlNew \in PairUrls \cup {urlIn}
  /\ urlOnce = NoUrl
  /\ urlTwice = NoUrl
  /\ urlNewOnce = NoUrl
  /\ recorded = NotRecorded

NormalizeNew ==
  /\ urlNew # NoUrl
  /\ urlOnce # NoUrl
  /\ urlNewOnce = NoUrl
  /\ urlNewOnce' = normalizeUrl(urlNew)
  /\ UNCHANGED <<navVars, analysis, urlIn, urlOnce, urlTwice, urlNew,
                 recorded>>

RecordNewVisit ==
  /\ urlNewOnce # NoUrl
  /\ ~recorded.done
  /\ recorded' = [done |-> TRUE, value |-> shouldRecordNewVisit(urlIn, urlNew)]
  /\ UNCHANGED <<navVars, analysis, urlIn, urlOnce, urlTwice, urlNew,
                 urlNewOnce>>

NextVisit == NormalizeOnce \/ NormalizeNew \/ RecordNewVisit

SpecVisit == InitVisit /\ [][NextVisit]_vars

(***************************************************************************)
(* Specification of the analyzers applied to a document                    *)
(***************************************************************************)
\* elements a document is built from (the parent is set by the position)
NodeShapes ==
  {Elem("nav", "", 0, <<"w">>),
   Elem("main", "", 0, <<"w", " ", "w", "9">>),
   Elem("p", "", 0, <<"w">>),
   Link(0, <<"/x">>, <<"w", " ", "w">>),
   Link(0, <<"https:", "//", "b.org", "/x">>, <<"w">>),
   Link(0, <<"#">>, <<"9">>),
   Img(0, TRUE, <<"/static/", "a.png">>, 24, 300, 300, 300, 200),
   Img(0, TRUE, <<"/static/", "a.png">>, 24, 30, 30, 30, 30),
   Img(0, FALSE, <<"/static/", "a.png">>, 0, 0, 0, 100, 100),
   Elem("div", "menu", 0, <<>>),
   Link(0, <<"https:", "//", "www.", "a.com", "/x">>, <<"w">>),
   Link(0, <<"https:", "//", "A.COM", "/y">>, <<"w">>),
   Link(0, <<"HTTPS:", "//", "b.org", "/x">>, <<"w">>),
   Link(0, <<"https:", "//">>, <<"w">>),
   Link(0, <<"JavaScript:">>, <<"w">>),
   Link(0, <<>>, <<"w">>),
   Link(0, <<"/y">>, <<"l">>),
   Link(0, <<"about.html">>, <<" ", "w", " ">>)}

\* element sequences of length n: shapes sh with parents pa, where an
\* element's parent precedes it
NodeSeq(n, sh, pa) == [i \in 1..n |-> [sh[i] EXCEPT !.parent = pa[i]]]

\* the document is any of at most MaxNodes elements, with or without a body
InitAnalyze ==
  /\ IdleNav
  /\ IdleUrl
  /\ \E n \in 0..MaxNodes :
       \E sh \in [1..n -> NodeShapes], pa \in [1..n -> 0..n], b \in BOOLEAN :
          /\ \A i \in 1..n : pa[i] < i
          /\ doc = [body |-> b, nodes |-> NodeSeq(n, sh, pa)]
  /\ analysis = NoAnalysis

AnalyzeWords ==
  /\ analysis.stage = 0
  /\ analysis' = [analysis EXCEPT !.stage = 1,
                                  !.words = countContentWords(doc)]
  /\ doc' = documentAfterCountWords(doc)
  /\ UNCHANGED <<href, readyState, pc, listening, hooked, initRan, lastUrl,
                 navigationVars, observerLastUrl, sent, toContent,
                 backgroundVars, events, loadUrl, samePage, urlVars,
                 requests, panel, buttonTimer>>

AnalyzeLinks ==
  /\ analysis.stage = 1
  /\ analysis' = [analysis EXCEPT !.stage = 2,
                                  !.links = countContentLinks(doc, href)]
  /\ UNCHANGED <<navVars, urlVars>>

AnalyzeImages ==
  /\ analysis.stage = 2
  /\ analysis' = [analysis EXCEPT !.stage = 3,
                                  !.images = countContentImages(doc)]
  /\ UNCHANGED <<navVars, urlVars>>

\* PageMetricsExtractor.extractMetrics called by sendPageMetrics
AnalyzeExtract ==
  /\ analysis.stage = 3
  /\ analysis' = [analysis EXCEPT !.stage = 4,
                                  !.metrics = extractMetrics(doc, href),
                                  !.messages = sendPageMetrics(doc, href, <<>>)]
  /\ UNCHANGED <<navVars, urlVars>>

NextAnalyze == AnalyzeWords \/ AnalyzeLinks \/ AnalyzeImages \/ AnalyzeExtract

SpecAnalyze == InitAnalyze /\ [][NextAnalyze]_vars

(***************************************************************************)
(* Specification of the analyzers applied to a document of images          *)
(***************************************************************************)
\* an image that passes every test of isContentImage
ContentImg == Img(0, TRUE, <<"https:", "//", "a.com", "/static/", "a.png">>,
                  24, 300, 300, 300, 200)

\* regions, and images that differ from ContentImg in one property or have
\* exactly one relevance signal
ImageShapes ==
  {Elem("nav", "", 0, <<"w">>),
   Elem("span", "icon", 0, <<>>),
   Elem("p", "", 0, <<"w">>),
   ContentImg,
   [ContentImg EXCEPT !.naturalWidth = 30],
   [ContentImg EXCEPT !.naturalHeight = 49],
   [ContentImg EXCEPT !.naturalWidth = 50, !.naturalHeight = 50],
   [ContentImg EXCEPT !.rectWidth = 0],
   [ContentImg EXCEPT !.rectHeight = 0],
   [ContentImg EXCEPT !.display = "none"],
   [ContentImg EXCEPT !.visibility = "hidden"],
   [ContentImg EXCEPT !.alt = 10, !.rectWidth = 200],
   [ContentImg EXCEPT !.alt = 11, !.rectWidth = 200],
   [ContentImg EXCEPT !.alt = 0, !.rectWidth = 201],
   [ContentImg EXCEPT !.alt = 0, !.rectWidth = 100,
      !.src = <<"https:", "//", "a.com", "/IMAGES/", "a.png">>],
   [ContentImg EXCEPT !.alt = 0, !.rectWidth = 100,
      !.src = <<"https:", "//", "upload", ".b.org", "/a.png">>],
   Img(0, FALSE, <<"https:", "//", "a.com", "/static/", "a.png">>,
       0, 0, 0, 100, 100)}

InitImages ==
  /\ IdleNav
  /\ IdleUrl
  /\ \E n \in 0..MaxNodes :
       \E sh \in [1..n -> ImageShapes], pa \in [1..n -> 0..n] :
          /\ \A i \in 1..n : pa[i] < i
          /\ doc = [body |-> TRUE, nodes |-> NodeSeq(n, sh, pa)]
  /\ analysis = NoAnalysis

SpecImages == InitImages /\ [][NextAnalyze]_vars

(***************************************************************************)
(* Specification of the analyzers applied to a document of text blocks     *)
(***************************************************************************)
\* elements matching the content selectors, elements matching the exclude
\* selectors, one matching both, and a paragraph
TextShapes ==
  {Elem("main", "", 0, <<"w", " ", "w", "9">>),
   Elem("article", "", 0, <<"w">>),
   Elem("section", "role=main", 0, <<"l">>),
   Elem("div", "content", 0, <<"w", " ", "w", " ", "w">>),
   Elem("div", "#main", 0, <<"w", "9", "w", " ", "w", " ", "w">>),
   Elem("main", "sidebar", 0, <<"w">>),
   Elem("nav", "", 0, <<"w">>),
   Elem("footer", "", 0, <<"w", " ", "w">>),
   Elem("aside", "", 0, <<"w">>),
   Elem("script", "", 0, <<"w", "9", "w">>),
   Elem("div", "ad", 0, <<"w">>),
   Elem("div", "banner", 0, <<"w">>),
   Elem("p", "", 0, <<" ", "w", " ">>)}

InitWords ==
  /\ IdleNav
  /\ IdleUrl
  /\ \E n \in 0..MaxNodes :
       \E sh \in [1..n -> TextShapes], pa \in [1..n -> 0..n], b \in BOOLEAN :
          /\ \A i \in 1..n : pa[i] < i
          /\ doc = [body |-> b, nodes |-> NodeSeq(n, sh, pa)]
  /\ analysis = NoAnalysis

SpecWords == InitWords /\ [][NextAnalyze]_vars

(***************************************************************************)
(* Properties                                                              *)
(***************************************************************************)
FailedStatus == {"httperror", "networkerror"}

\* C1: debounce coalescing.  At most one timer is pending; the pending
\* timer is the one of the latest trigger and carries its URL, so a
\* superseded candidate is never evaluated; in a burst (triggers that each
\* arrive while the previous timer is pending) shouldRecordNewVisit is
\* evaluated no earlier than after the last trigger, once when the timer has
\* expired, and at most one extraction is emitted.
C1_DebounceCoalescing ==
  /\ Cardinality(timers) <= 1
  /\ \A t \in timers : t.id = navigationTimer /\ t.newUrl = lastTrigger
  /\ burstEvals <= 1
  /\ burstSent <= 1
  /\ timers # {} => burstEvals = 0
  /\ (burstLen > 0 /\ timers = {}) => burstEvals = 1

\* a burst of two or more triggers has been evaluated and has emitted
C1_Witness ==
  burstLen >= 2 /\ timers = {} /\ burstEvals = 1 /\ burstSent = 1

\* C2: at every timer expiry whose candidate differs from the last-accepted
\* URL after normalization, the candidate becomes the last-accepted URL and
\* exactly one PAGE_VISIT message is emitted.
C2_AcceptedEmitsOne ==
  [][\A t \in timers :
       (Expires(t) /\ normalizeUrl(t.newUrl) # normalizeUrl(lastUrl))
         => (lastUrl' = t.newUrl /\ Len(sent') = Len(sent) + 1)]_vars

\* C3: at every timer expiry whose candidate equals the last-accepted URL
\* after normalization, the last-accepted URL keeps its value and no
\* PAGE_VISIT message is emitted.
C3_RejectedEmitsNothing ==
  [][\A t \in timers :
       (Expires(t) /\ normalizeUrl(t.newUrl) = normalizeUrl(lastUrl))
         => (lastUrl' = lastUrl /\ sent' = sent /\ doc' = doc)]_vars

\* a candidate that differs from the last-accepted URL as a string only has
\* been rejected
C3_Witness ==
  /\ timers = {}
  /\ burstEvals = 1
  /\ burstSent = 0
  /\ lastTrigger # lastUrl
  /\ normalizeUrl(lastTrigger) = normalizeUrl(lastUrl)

\* C4: no two consecutively emitted PAGE_VISIT records carry URLs whose
\* normalized forms are equal.
C4_NoDuplicateVisits ==
  \A i \in 1..(Len(sent) - 1) :
     normalizeUrl(sent[i].data.url) # normalizeUrl(sent[i + 1].data.url)

\* C5: a page load produces exactly one PAGE_VISIT record: initialization
\* emits it, and triggers for the same normalized URL (the TAB_UPDATED of
\* the load, mutations, history calls) add none.
C5_OneRecordPerLoad ==
  (initRan /\ samePage) => Len(sent) = 1

\* C6: normalizeUrl is idempotent.
C6_Idempotent ==
  urlTwice # NoUrl => urlTwice = urlOnce

\* C7: after initialization the last-URL value of the navigation tracker is
\* in normalized form.
C7_LastUrlNormalized ==
  initRan => normalizeUrl(lastUrl) = lastUrl

\* C7 as amended: the last-URL value is the URL as it was given, not its
\* normalized form.  It changes only at initialization, to the page's
\* window.location.href, and at a timer expiry, to the candidate, whose
\* normalized form then differs from the one of the value it replaces.
C7_LastUrlAsGiven ==
  [][lastUrl' # lastUrl =>
       \/ ~initRan /\ initRan' /\ lastUrl' = href
       \/ \E t \in timers :
            /\ Expires(t)
            /\ lastUrl' = t.newUrl
            /\ normalizeUrl(t.newUrl) # normalizeUrl(lastUrl)]_vars

\* an accepted navigation has stored a URL that is not in normalized form
C7_Witness ==
  /\ initRan
  /\ burstEvals = 1
  /\ burstSent = 1
  /\ lastUrl = lastTrigger
  /\ normalizeUrl(lastUrl) # lastUrl

\* C8: every emitted PageMetrics record carries its url in normalized form.
C8_RecordUrlNormalized ==
  \A i \in 1..Len(sent) : normalizeUrl(sent[i].data.url) = sent[i].data.url

\* C8 as amended: every emitted PageMetrics record carries as url the
\* page's window.location.href at the time of the extraction, as it is.
C8_RecordUrlIsHref ==
  [][Len(sent') # Len(sent) =>
       /\ Len(sent') = Len(sent) + 1
       /\ SubSeq(sent', 1, Len(sent)) = sent
       /\ sent'[Len(sent')].type = "PAGE_VISIT"
       /\ sent'[Len(sent')].data.url = href
       /\ href' = href]_vars

\* a record has been emitted whose url is not in normalized form
C8_Witness ==
  \E i \in 1..Len(sent) : normalizeUrl(sent[i].data.url) # sent[i].data.url

\* C9: a failed POST is isolated.  No visit is posted twice and every
\* received PAGE_VISIT has its own POST; the step in which a POST fails
\* issues no request and leaves the content script's state (the
\* last-accepted URL included) as it is; a PAGE_VISIT that is waiting is
\* taken up whatever the outcome of earlier requests.
C9_FailureIsolated ==
  /\ [](/\ Len(posts) = bgReceived
        /\ \A i, j \in 1..Len(posts) :
              posts[i].visit = posts[j].visit => i = j
        /\ \A i \in 1..Len(posts) :
              /\ posts[i].visit \in 1..Len(sent)
              /\ posts[i].body = sent[posts[i].visit].data
        /\ bgReceived < Len(sent) => ENABLED ReceivePageVisit)
  /\ [][\A i \in 1..Len(posts) :
          (posts[i].status = "pending" /\ posts'[i].status \in FailedStatus)
            => /\ Len(posts') = Len(posts)
               /\ ~posts'[i].notified
               /\ UNCHANGED <<lastUrl, sent, timers, navigationTimer, href,
                              doc, listening, hooked>>]_vars

\* after the POST of a visit has failed, a later visit has been posted and
\* its POST has succeeded
C9_Witness ==
  \E i, j \in 1..Len(posts) :
     /\ posts[i].status \in FailedStatus
     /\ posts[j].visit > posts[i].visit
     /\ posts[j].status = "ok"
     /\ lastUrl = sent[posts[j].visit].data.url

\* C10: the analyzers are total: none raises, the word count is a
\* non-negative integer, the link and image counts are non-negative, and
\* the image counts are all zero when classifying an image fails.
C10_AnalyzersTotal ==
  /\ analysis.stage >= 1 =>
       ~analysis.words.raised /\ analysis.words.value >= 0
  /\ analysis.stage >= 2 =>
       /\ ~analysis.links.raised
       /\ analysis.links.value.total >= 0
       /\ analysis.links.value.internal >= 0
       /\ analysis.links.value.external >= 0
  /\ analysis.stage >= 3 =>
       /\ ~analysis.images.raised
       /\ analysis.images.value.total >= 0
       /\ (\E i \in 1..Len(doc.nodes) :
             /\ doc.nodes[i].tag = "img"
             /\ doc.nodes[i].src # NoUrl
             /\ isContentImage(doc, i).raised)
            => analysis.images.value =
                 [total |-> 0, content |-> 0, decorative |-> 0]

\* C12: shouldRecordNewVisit(old, new) is true exactly when the normalized
\* forms of old and new differ, malformed inputs included, and
\* shouldRecordNewVisit(u, u) is false for every u.
C12_RecordIffNormalizedDiffer ==
  recorded.done =>
    /\ recorded.value = (urlOnce # urlNewOnce)
    /\ urlNew = urlIn => ~recorded.value

\* two different strings have been judged to be the same page
C12_Witness ==
  recorded.done /\ ~recorded.value /\ urlNew # urlIn /\ urlOnce = urlNewOnce

\* C13: for well-formed a and b, the same scheme, hostname without a leading
\* www. and path give false whatever the query strings and fragments;
\* different paths give true.
C13_PathsDifferRecorded ==
  (recorded.done /\ NewURL(urlIn).ok /\ NewURL(urlNew).ok) =>
    /\ (/\ NewURL(urlIn).protocol = NewURL(urlNew).protocol
        /\ StripWww(NewURL(urlIn).hostname) = StripWww(NewURL(urlNew).hostname)
        /\ NewURL(urlIn).pathname = NewURL(urlNew).pathname)
         => ~recorded.value
    /\ NewURL(urlIn).pathname # NewURL(urlNew).pathname => recorded.value

\* C13 as amended: the same scheme, hostname without a leading www. and
\* path give false whatever the query strings and fragments; paths that
\* differ in more than the case of their letters give true, and with the
\* same scheme and hostname paths that differ in letter case only give
\* false.
C13_PathsDifferBeyondCase ==
  (recorded.done /\ NewURL(urlIn).ok /\ NewURL(urlNew).ok) =>
    /\ (/\ NewURL(urlIn).protocol = NewURL(urlNew).protocol
        /\ StripWww(NewURL(urlIn).hostname) = StripWww(NewURL(urlNew).hostname)
        /\ ToLowerTok(NewURL(urlIn).pathname)
             = ToLowerTok(NewURL(urlNew).pathname))
         => ~recorded.value
    /\ ToLowerTok(NewURL(urlIn).pathname)
         # ToLowerTok(NewURL(urlNew).pathname) => recorded.value

\* two URLs of one page that differ in www., query and fragment have been
\* judged the same
C13_Witness ==
  /\ recorded.done
  /\ ~recorded.value
  /\ NewURL(urlIn).ok /\ NewURL(urlNew).ok
  /\ NewURL(urlIn).search # NewURL(urlNew).search
  /\ NewURL(urlIn).hash # NewURL(urlNew).hash
  /\ NewURL(urlIn).hostname # NewURL(urlNew).hostname
  /\ NewURL(urlIn).pathname = NewURL(urlNew).pathname

\* C14: normalizeUrl returns a string that new URL() rejects as it is, and
\* shouldRecordNewVisit then compares the strings as they are: two
\* malformed inputs are a new visit exactly when they differ, a malformed
\* and a well-formed one always.
C14_MalformedUnchanged ==
  /\ (urlOnce # NoUrl /\ ~NewURL(urlIn).ok) => urlOnce = urlIn
  /\ (urlNewOnce # NoUrl /\ ~NewURL(urlNew).ok) => urlNewOnce = urlNew
  /\ (recorded.done /\ ~NewURL(urlIn).ok /\ ~NewURL(urlNew).ok)
       => recorded.value = (urlIn # urlNew)
  /\ (recorded.done /\ NewURL(urlIn).ok # NewURL(urlNew).ok)
       => recorded.value

\* two different malformed strings have been compared
C14_Witness ==
  /\ recorded.done
  /\ recorded.value
  /\ ~NewURL(urlIn).ok /\ ~NewURL(urlNew).ok
  /\ urlIn # <<>> /\ urlNew # <<>>
  /\ urlOnce = urlIn /\ urlNewOnce = urlNew

\* the a[href] elements of the document
AllLinks == {i \in 1..Len(doc.nodes) :
               doc.nodes[i].tag = "a" /\ doc.nodes[i].href # NoUrl}

\* the img[src] elements of the document
AllImages == {i \in 1..Len(doc.nodes) :
                doc.nodes[i].tag = "img" /\ doc.nodes[i].src # NoUrl}

\* window.location.hostname
CurrentDomain == NewURL(href).hostname

\* the link sits inside a nav, header, footer or menu region
InRegion(i) ==
  \E k \in 1..Len(doc.nodes) :
     /\ IsUnder(doc, i, k)
     /\ \/ doc.nodes[k].tag \in {"nav", "header", "footer"}
        \/ doc.nodes[k].cls \in {"nav", "header", "footer", "menu"}

\* the link has at most one character of text and contains no image
NoTextNoImage(i) ==
  /\ Len(trimAll(textContent(doc, i))) <= 1
  /\ trimAll(textContent(doc, i)) # <<"w">>
  /\ ~\E j \in 1..Len(doc.nodes) :
        j # i /\ IsUnder(doc, j, i) /\ doc.nodes[j].tag = "img"

\* the target is empty, an in-page anchor, javascript:, tel:, mailto:,
\* data: or about:blank
NoTarget(i) ==
  \/ doc.nodes[i].href = <<>>
  \/ ToLowerTok(doc.nodes[i].href[1]) \in
       {"#", "#frag", "javascript:", "tel:", "mailto:", "data:", "about:blank"}

\* the links the exclusion rules leave
KeptLinks == {i \in AllLinks : ~InRegion(i) /\ ~NoTextNoImage(i) /\ ~NoTarget(i)}

\* kept links whose target is an absolute URL of another site
ForeignLinks ==
  {i \in KeptLinks :
     /\ NewURL(doc.nodes[i].href).ok
     /\ NewURL(doc.nodes[i].href).hostname # CurrentDomain
     /\ ~endsWithDot(NewURL(doc.nodes[i].href).hostname, CurrentDomain)}

\* kept links whose target is a path or an absolute URL of the page's site
OwnLinks ==
  {i \in KeptLinks :
     \/ doc.nodes[i].href[1] \in PathTok \cup {"./", "../", "about.html"}
     \/ /\ NewURL(doc.nodes[i].href).ok
        /\ \/ NewURL(doc.nodes[i].href).hostname = CurrentDomain
           \/ endsWithDot(NewURL(doc.nodes[i].href).hostname, CurrentDomain)}

\* kept links whose target starts with http and cannot be parsed
MalformedLinks ==
  {i \in KeptLinks :
     /\ doc.nodes[i].href[1] \in {"https:", "http:"}
     /\ ~NewURL(doc.nodes[i].href).ok}

\* C11: an internal failure of one analyzer never prevents the record from
\* being produced and sent, and the record has the counts of the other
\* analyzers.
C11_AnalyzerIsolation ==
  analysis.stage >= 4 =>
    /\ ~analysis.metrics.raised
    /\ Len(analysis.messages) = 1
    /\ analysis.messages[1].data = analysis.metrics.value
    /\ analysis.metrics.value.link_count = analysis.links.value.total
    /\ analysis.metrics.value.image_count = analysis.images.value.total
    /\ ~analysis.words.raised =>
         analysis.metrics.value.word_count = analysis.words.value

\* C15: the link counts are not negative, internal + external <= total, and
\* no link is both internal and external.
C15_LinkCountsBounded ==
  analysis.stage >= 2 =>
    /\ analysis.links.value.total >= 0
    /\ analysis.links.value.internal >= 0
    /\ analysis.links.value.external >= 0
    /\ analysis.links.value.internal + analysis.links.value.external
         <= analysis.links.value.total
    /\ analysis.links.value.total <= Cardinality(AllLinks)
    /\ \A i \in AllLinks :
         ~(/\ isInternalLink(doc.nodes[i].href, CurrentDomain)
           /\ isExternalLink(doc.nodes[i].href, CurrentDomain))

\* an internal and an external link have been counted
C15_Witness ==
  /\ analysis.stage >= 2
  /\ analysis.links.value = [total |-> 2, internal |-> 1, external |-> 1]

\* C16: content + decorative = total for the image counts, on the normal
\* path, where every image found is counted, and on the failure path, where
\* all three are zero.
C16_ImageCountsAddUp ==
  analysis.stage >= 3 =>
    /\ ~analysis.images.raised
    /\ analysis.images.value.content >= 0
    /\ analysis.images.value.decorative >= 0
    /\ analysis.images.value.content + analysis.images.value.decorative
         = analysis.images.value.total
    /\ analysis.images.value.total \in {0, Cardinality(AllImages)}

\* a content image and a decorative image have been counted
C16_Witness ==
  /\ analysis.stage >= 3
  /\ analysis.images.value = [total |-> 2, content |-> 1, decorative |-> 1]

\* C17: a link inside a nav/header/footer/menu region, or with neither text
\* of more than one character nor an image, or with an empty, in-page,
\* javascript:, tel:, mailto:, data: or about:blank target is counted in none
\* of total, internal and external.
C17_ExcludedNotCounted ==
  analysis.stage >= 2 =>
    /\ analysis.links.value.total <= Cardinality(KeptLinks)
    /\ analysis.links.value.internal <= Cardinality(KeptLinks)
    /\ analysis.links.value.external <= Cardinality(KeptLinks)

\* of two links one is excluded and the other is counted
C17_Witness ==
  /\ analysis.stage >= 2
  /\ Cardinality(AllLinks) = 2
  /\ Cardinality(KeptLinks) = 1
  /\ analysis.links.value.total = 1

\* C18: every kept link whose target is an absolute URL, whatever its
\* scheme and the case of its letters, with a hostname that is neither the
\* page's nor a subdomain of it is counted as external and not as internal.
C18_ForeignIsExternal ==
  analysis.stage >= 2 =>
    /\ analysis.links.value.external >= Cardinality(ForeignLinks)
    /\ analysis.links.value.internal
         <= analysis.links.value.total - Cardinality(ForeignLinks)

C20_MalformedInTotalOnly ==
  analysis.stage >= 2 =>
    /\ ~analysis.links.raised
    /\ analysis.links.value.total >= Cardinality(MalformedLinks)
    /\ analysis.links.value.internal + analysis.links.value.external
         <= analysis.links.value.total - Cardinality(MalformedLinks)

\* a malformed link has been counted in total beside an internal link
C20_Witness ==
  /\ analysis.stage >= 2
  /\ Cardinality(MalformedLinks) = 1
  /\ analysis.links.value = [total |-> 2, internal |-> 1, external |-> 0]

\* the image sits inside a nav, header, menu or icon region
InImageRegion(i) ==
  \E k \in 1..Len(doc.nodes) :
     /\ IsUnder(doc, i, k)
     /\ \/ doc.nodes[k].tag \in {"nav", "header"}
        \/ doc.nodes[k].cls \in {"nav", "header", "menu", "icon"}

\* the image has a rendered box and is neither display:none nor
\* visibility:hidden
ImageVisible(i) ==
  /\ doc.nodes[i].rectWidth > 0 /\ doc.nodes[i].rectHeight > 0
  /\ doc.nodes[i].display # "none" /\ doc.nodes[i].visibility # "hidden"

\* token k of the image's source lies in the host part of the URL
InSrcHost(i, k) ==
  k <= 2 \/ \A j \in 3..k : doc.nodes[i].src[j] \in {"a.com", "upload", ".b.org"}

\* a media, images or upload marker occurs in the source URL
SrcMarker(i) ==
  \E k \in 1..Len(doc.nodes[i].src) :
     ToLowerTok(doc.nodes[i].src[k]) \in {"/media/", "/images/", "upload"}

\* a media, images or upload marker occurs in the path of the source URL
SrcPathMarker(i) ==
  \E k \in 1..Len(doc.nodes[i].src) :
     /\ ToLowerTok(doc.nodes[i].src[k]) \in {"/media/", "/images/", "upload"}
     /\ ~InSrcHost(i, k)

\* the gating conditions of an image, with marker telling whether the source
\* has a relevance marker
ImageGates(i, marker) ==
  /\ doc.nodes[i].html
  /\ doc.nodes[i].naturalWidth >= 50 /\ doc.nodes[i].naturalHeight >= 50
  /\ ~InImageRegion(i)
  /\ ImageVisible(i)
  /\ doc.nodes[i].alt > 10 \/ marker \/ doc.nodes[i].rectWidth > 200

\* C21 as stated: an image is counted as content if and only if its natural
\* width and height are both >= 50, it is in no nav/header/menu/icon region,
\* it is visible and it has alt text longer than 10 characters, a source path
\* with a media/images/upload marker or a rendered width over 200; every
\* other image is counted as decorative.
C21_ContentIffGates ==
  analysis.stage >= 3 =>
    /\ analysis.images.value.content =
         Cardinality({i \in AllImages : ImageGates(i, SrcPathMarker(i))})
    /\ analysis.images.value.decorative =
         Cardinality({i \in AllImages : ~ImageGates(i, SrcPathMarker(i))})

\* C21: unless the classification of an image throws, in which case all
\* counts are zero, an image is counted as content if and only if it passes
\* the gates, where the marker is looked for in the whole lower-cased source
\* URL, and every other image is counted as decorative; an image with
\* natural width below 50 is never counted as content.
C21_ContentIffGatesOrZero ==
  analysis.stage >= 3 =>
    /\ IF \E i \in AllImages : isContentImage(doc, i).raised
       THEN analysis.images.value =
              [total |-> 0, content |-> 0, decorative |-> 0]
       ELSE /\ analysis.images.value.content =
                 Cardinality({i \in AllImages : ImageGates(i, SrcMarker(i))})
            /\ analysis.images.value.decorative =
                 Cardinality({i \in AllImages : ~ImageGates(i, SrcMarker(i))})
    /\ analysis.images.value.content <=
         Cardinality({i \in AllImages : doc.nodes[i].naturalWidth >= 50})

\* an image 30 pixels wide with a long alt text has been counted as
\* decorative beside a content image
C21_Witness ==
  /\ analysis.stage >= 3
  /\ \E i, j \in AllImages :
       /\ ImageGates(i, SrcMarker(i))
       /\ doc.nodes[j].naturalWidth = 30 /\ doc.nodes[j].alt > 10
  /\ analysis.images.value = [total |-> 2, content |-> 1, decorative |-> 1]

\* the elements matching an exclude selector
AllRegions ==
  {k \in 1..Len(doc.nodes) : matchesExcludeSelector(doc.nodes[k])}

\* the element countContentWords takes for the main content, 0 for the body
ContentElement == querySelectorContent(doc)

\* the regions that are descendants of the content element
RegionsBelowContent ==
  {k \in AllRegions : k # ContentElement /\ IsUnder(doc, k, ContentElement)}

\* number of words of the text of the elements at or below root that are in
\* none of the regions R
WordsOutside(root, R) ==
  matchCount(cleanText(Concat(
    [j \in 1..Len(doc.nodes) |-> doc.nodes[j].text],
    {j \in 1..Len(doc.nodes) :
       IsUnder(doc, j, root) /\ ~\E k \in R : IsUnder(doc, j, k)}, 1)))

\* C22 as stated: text inside a non-content region never contributes to the
\* word count, whether the region is inside the content element or the
\* content element inside the region; for nav 'Menu' + main 'Hello world!'
\* the count is 2.
C22_RegionTextNeverCounted ==
  analysis.stage >= 1 =>
    /\ analysis.words.value <= WordsOutside(0, AllRegions)
    /\ doc = NavMainDoc => analysis.words.value = 2

\* C22: text inside a non-content region that is a descendant of the
\* content element (of the body when no content selector matches) never
\* contributes to the word count, which is the number of words of the rest
\* of the content element's text; for nav 'Menu' + main 'Hello world!' the
\* count is 2.
C22_DescendantRegionTextNotCounted ==
  analysis.stage >= 1 /\ ~analysis.words.raised =>
    /\ analysis.words.value = WordsOutside(ContentElement, RegionsBelowContent)
    /\ doc = NavMainDoc => analysis.words.value = 2

\* the words of a content element have been counted without those of a
\* region inside it
C22_Witness ==
  /\ analysis.stage >= 1
  /\ ContentElement # 0
  /\ RegionsBelowContent # {}
  /\ analysis.words.value = 2
  /\ WordsOutside(ContentElement, {}) > 2

\* C23: countContentWords never changes the page's document: element tree
\* and text are the same after the call as before it, on the normal path
\* and on the fallback path.
C23_LivePageUnchanged ==
  [][analysis.stage = 0 /\ analysis'.stage = 1 => doc' = doc]_vars

\* countContentWords has run on a document in which it had subtrees to
\* remove
C23_Witness ==
  /\ analysis.stage >= 1
  /\ ~analysis.words.raised
  /\ removedFromClone(doc, ContentElement) # {}

\* position of the first content selector the element matches
SelectorRank(n) ==
  CASE n.tag = "main" -> 1
    [] n.tag = "article" -> 2
    [] n.cls = "role=main" -> 3
    [] n.cls = "content" -> 4
    [] n.cls = "main-content" -> 5
    [] n.cls = "post-content" -> 6
    [] n.cls = "entry-content" -> 7
    [] n.cls = "#content" -> 8
    [] OTHER -> 9

\* the first element matching the earliest content selector that matches
\* anything, 0 when none matches
EarliestSelectorElement ==
  LET M == {i \in 1..Len(doc.nodes) : matchesContentSelector(doc.nodes[i])}
  IN IF M = {} THEN 0
     ELSE CHOOSE i \in M :
            \A j \in M :
               \/ SelectorRank(doc.nodes[i]) < SelectorRank(doc.nodes[j])
               \/ /\ SelectorRank(doc.nodes[i]) = SelectorRank(doc.nodes[j])
                  /\ i <= j

\* C24: the words counted are those of the element matching the earliest
\* selector of the list that matches anything, wherever the elements are in
\* the document, and those of the body only when no selector matches.
C24_EarliestSelectorWins ==
  analysis.stage >= 1 /\ ~analysis.words.raised =>
    analysis.words.value =
      WordsOutside(EarliestSelectorElement,
                   {k \in AllRegions : k # EarliestSelectorElement
                                        /\ IsUnder(doc, k, EarliestSelectorElement)})

\* C25: when a timer expiry accepts its candidate and emits a PAGE_VISIT
\* record, the url of the record denotes the URL just stored as
\* last-accepted (they have the same normalized form), whatever the source
\* of the trigger.
C25_RecordUrlIsAccepted ==
  [][\A t \in timers :
       (Expires(t) /\ lastUrl' = t.newUrl /\ Len(sent') = Len(sent) + 1)
         => normalizeUrl(sent'[Len(sent')].data.url) = normalizeUrl(lastUrl')]_vars

\* C26: every PAGE_VISIT message received has exactly one POST /visits,
\* which carries the message's data, and exactly one response, which is
\* sent when the POST has settled and not before, whatever its outcome.
C26_OnePostOneResponse ==
  /\ Len(posts) = bgReceived
  /\ \A i \in 1..Len(posts) :
        /\ posts[i].visit = i
        /\ posts[i].body = sent[i].data
        /\ posts[i].responses = IF posts[i].status = "pending" THEN 0 ELSE 1

\* a visit whose POST succeeded and a visit whose POST failed have each
\* been answered once
C26_Witness ==
  \E i, j \in 1..Len(posts) :
     /\ posts[i].status = "ok" /\ posts[i].responses = 1
     /\ posts[j].status \in FailedStatus /\ posts[j].responses = 1

\* C27: PAGE_VISIT_RECORDED is broadcast for a visit only after its POST has
\* completed with a success status, never for a visit whose POST failed with
\* a network error, a non-success status or a 404.
C27_BroadcastOnlyOnSuccess ==
  \A i \in 1..Len(posts) : posts[i].notified => posts[i].status = "ok"

\* no timer is pending, no message is in flight and no POST is unsettled
Quiescent ==
  /\ timers = {}
  /\ toContent = <<>>
  /\ bgReceived = Len(sent)
  /\ \A i \in 1..Len(posts) : posts[i].status # "pending"

\* the work the content script and the background have before them: a
\* TAB_UPDATED message may start a timer, a timer may emit a PAGE_VISIT, a
\* PAGE_VISIT is received and posted, a settled POST may broadcast a
\* message, which is ignored
Pending ==
  6 * Cardinality({k \in 1..Len(toContent) : toContent[k].type = "TAB_UPDATED"})
  + Cardinality({k \in 1..Len(toContent) : toContent[k].type # "TAB_UPDATED"})
  + 5 * Cardinality(timers)
  + 4 * (Len(sent) - bgReceived)
  + 3 * Cardinality({i \in 1..Len(posts) : posts[i].status = "pending"})

\* C29: a PAGE_LOADED, TAB_SWITCHED or PAGE_VISIT_RECORDED message reaching
\* the content script starts no timer and emits nothing; the timeout started
\* by the mutation that adds the side-panel button emits nothing; the step
\* in which a POST settles emits nothing and starts no timer; and every step
\* that is not a navigation trigger or the start of the content script
\* reduces the pending work, which is zero exactly when no timer is
\* pending, no message is in flight and no POST is unsettled: after a
\* finite burst of triggers that state is reached.
C29_RecordingRecordsNothing ==
  /\ [][(/\ toContent # <<>>
         /\ toContent' = Tail(toContent)
         /\ Head(toContent).type # "TAB_UPDATED")
          => UNCHANGED <<sent, timers, navigationTimer, lastUrl, doc>>]_vars
  /\ [][\A t \in timers :
          (Expires(t) /\ t.id = buttonTimer) => sent' = sent]_vars
  /\ [][posts' # posts => UNCHANGED <<sent, timers, navigationTimer>>]_vars
  /\ [][(events' = events /\ pc' = pc /\ readyState' = readyState)
          => Pending' < Pending]_vars
  /\ [](Pending >= 0 /\ (Pending = 0 <=> Quiescent))

\* the timeout of the button's mutation has expired, the visit of the
\* initialization has been recorded and its broadcast delivered, and nothing
\* else has been emitted
C29_Witness ==
  /\ buttonTimer # 0
  /\ Quiescent
  /\ Len(sent) = 1
  /\ posts[1].notified

\* C28: every message the background's handler receives, whatever its
\* type, eventually has exactly one response, and never more than one.
C28_EveryMessageAnswered ==
  /\ [](/\ \A i \in 1..Len(requests) : requests[i].responses <= 1
        /\ \A i \in 1..Len(posts) : posts[i].responses <= 1)
  /\ <>[](/\ \A i \in 1..Len(requests) : requests[i].responses = 1
          /\ bgReceived = Len(sent)
          /\ \A i \in 1..Len(posts) : posts[i].responses = 1)

\* C30: once every refresh has settled, the metrics and history shown are
\* those of the fetchPageData call started last and were fetched for the
\* displayed current URL; the results of an older call never replace those
\* of a newer one; and loading is not false while a call is running.
C30_LatestRefreshShown ==
  /\ []((/\ panel.queries = <<>>
         /\ panel.fetches # <<>>
         /\ \A k \in 1..Len(panel.fetches) : panel.fetches[k].settled)
          => /\ panel.shown = Len(panel.fetches)
             /\ panel.fetches[panel.shown].url = panel.currentUrl)
  /\ [][panel'.shown >= panel.shown]_vars
  /\ [](~panel.loading =>
          \A k \in 1..Len(panel.fetches) : panel.fetches[k].settled)

====
